---- MODULE Spec2Model ----
(***************************************************************************)
(* Model of ExpenseManager (src/expense_tracker.py): the in-memory list of *)
(* expense records, the backing file expenses.json, and the operations     *)
(* add_expense, get_expenses, get_total_expenses,                          *)
(* get_expenses_by_category, save_expenses and load_expenses, together     *)
(* with process start (the constructor) and process exit; and of           *)
(* ExpenseApp: its start, the "Add Expense" button, the "Refresh" button   *)
(* and the rows of the table.  A process either uses the store directly    *)
(* (app = FALSE) or runs the window (app = TRUE), in which the store is    *)
(* reached only through the two buttons.                                   *)
(*                                                                         *)
(* Amounts are Python floats.  A float is modelled as a record             *)
(* [nan, q]: nan says the value is IEEE NaN, otherwise q is the value in   *)
(* hundredths.  The amount drawn as input (12.5) is exactly                 *)
(* representable in binary floating point and so are its multiples, so     *)
(* float addition of the modelled values is exact.  Amount arguments are   *)
(* text, as the form delivers them.                                        *)
(***************************************************************************)
EXTENDS Integers, Sequences, FiniteSets, TLC

\* ---------------------------------------------------------------- bounds
\* Largest number of records the in-memory list is allowed to grow to.
MaxExpenses == 2
\* Largest number of I/O faults (failed reads or writes of the file) injected
\* in one behaviour.
MaxFaults == 1

\* ---------------------------------------------------------------- values
Fin(n) == [nan |-> FALSE, q |-> n]
NaN == [nan |-> TRUE, q |-> 0]

\* self.categories, in the order of the list literal.
categories == <<"Food", "Transportation", "Entertainment", "Bills", "Shopping", "Other">>

CategorySet == {categories[i] : i \in 1..Len(categories)}

\* Texts handed to add_expense as its amount argument.
AmountInputs == {"12.50", "nan", "0", "-5", "abc", ""}
\* Category arguments: two of the fixed literals, one outside them, and
\* the empty text.
CategoryInputs == {"Food", "Bills", "Misc", ""}
DescriptionInputs == {"lunch", ""}
DateInputs == {"2024-01-15", ""}

\* The argument tuples tried: an ordinary expense, and every tuple that
\* differs from it in one argument.
BaseInput == <<"12.50", "Food", "lunch", "2024-01-15">>

AddInputs ==
  { x \in AmountInputs \X CategoryInputs \X DescriptionInputs \X DateInputs :
      Cardinality({i \in 1..4 : x[i] # BaseInput[i]}) <= 1 }

\* What the form can deliver: the category comes from a read-only combobox
\* over self.categories (or is empty).
FormInputs == { x \in AddInputs : x[2] \in CategorySet \cup {""} }

\* float(amount): the parsed value, or ValueError (ok = FALSE).
float(s) ==
  CASE s = "12.50" -> [ok |-> TRUE, val |-> Fin(1250)]
    [] s = "0"     -> [ok |-> TRUE, val |-> Fin(0)]
    [] s = "-5"    -> [ok |-> TRUE, val |-> Fin(-500)]
    [] s = "nan"   -> [ok |-> TRUE, val |-> NaN]
    [] OTHER       -> [ok |-> FALSE, val |-> Fin(0)]

\* amount <= 0 on floats: every comparison with NaN is False.
LessEqZero(v) == (~v.nan) /\ v.q <= 0

\* Float addition: NaN is absorbing.
FloatAdd(a, b) == IF a.nan \/ b.nan THEN NaN ELSE Fin(a.q + b.q)

\* ---------------------------------------------------------------- JSON
\* Variant: the amount is written rounded down to whole units.
FloatRepr_whole(v) ==
  CASE v.nan      -> "NaN"
    [] v.q = 1250 -> "12.0"
    [] OTHER      -> "0.0"

\* float.__repr__ as json.dump writes it.
FloatRepr(v) ==
  CASE v.nan      -> "NaN"
    [] v.q = 1250 -> "12.5"
    [] OTHER      -> "0.0"

\* The float a JSON number literal parses to.
ParseNumber(lex) ==
  CASE lex = "NaN"  -> NaN
    [] lex = "12.5" -> Fin(1250)
    [] lex = "12.0" -> Fin(1200)
    [] OTHER        -> Fin(0)

Member(k, t, l) == [key |-> k, tok |-> t, lex |-> l]

\* One dict serialised as a JSON object: its members in insertion order.
DumpObject(e) ==
  << Member("amount", "number", FloatRepr(e.amount)),
     Member("category", "string", e.category),
     Member("description", "string", e.description),
     Member("date", "string", e.date) >>

\* json.dump(self.expenses, f): the text of the array.
json_dump(exps) == [i \in 1..Len(exps) |-> DumpObject(exps[i])]

\* The value of member k of a parsed object.
Lookup(obj, k) ==
  LET i == CHOOSE j \in 1..Len(obj) : obj[j].key = k
  IN IF obj[i].tok = "number" THEN ParseNumber(obj[i].lex) ELSE obj[i].lex

LoadObject(obj) ==
  [amount |-> Lookup(obj, "amount"),
   category |-> Lookup(obj, "category"),
   description |-> Lookup(obj, "description"),
   date |-> Lookup(obj, "date")]

\* json.load(f) on a well-formed array of expense objects.
json_load(body) == [i \in 1..Len(body) |-> LoadObject(body[i])]

\* The backing file expenses.json: absent, unparseable, or JSON text.
Absent == [kind |-> "absent", body |-> <<>>]
Garbage == [kind |-> "garbage", body |-> <<>>]
Text(b) == [kind |-> "text", body |-> b]

\* What the file may hold when the program is first started.
InitialFiles ==
  { Absent, Garbage, Text(<<>>),
    Text(json_dump(<< [amount |-> Fin(1250), category |-> "Food",
                       description |-> "lunch", date |-> "2024-01-15"] >>)) }

VARIABLES
  expenses,   \* self.expenses
  file,       \* content of expenses.json
  running,    \* TRUE once the ExpenseManager has been constructed
  op,         \* the last operation performed
  argAmount,  \* amount argument of the last add_expense
  args,       \* the four texts of the last add_expense call or button click
  ret,        \* how the last operation ended: a return value or an exception
  total,      \* value returned by the last get_total_expenses
  byCat,      \* mapping returned by the last get_expenses_by_category
  dialog,     \* error box shown by the last operation ("" if none)
  listed,     \* list returned by the latest get_expenses since startup
  inserted,   \* amounts of the add_expense calls that returned True
  clean,      \* store started empty and every add so far returned True/False
  lastSaved,  \* sequence last written completely to the file, if any
  faults,     \* number of I/O faults injected so far
  app,        \* TRUE while the ExpenseApp window is up
  tree        \* rows of the Treeview, top to bottom

vars == <<expenses, file, running, op, argAmount, args, ret, total, byCat, dialog,
          listed, inserted, clean, lastSaved, faults, app, tree>>

NoTotals == [c \in CategorySet |-> Fin(0)]
NotSaved == [ok |-> FALSE, seq |-> <<>>]

Init ==
  /\ expenses = <<>>
  /\ file \in InitialFiles
  /\ running = FALSE
  /\ op = "none"
  /\ argAmount = ""
  /\ args = <<>>
  /\ ret = "None"
  /\ total = Fin(0)
  /\ byCat = NoTotals
  /\ dialog = ""
  /\ listed = <<>>
  /\ inserted = <<>>
  /\ clean = FALSE
  /\ lastSaved = NotSaved
  /\ faults = 0
  /\ app = FALSE
  /\ tree = <<>>

\* ---------------------------------------------------------------- load
\* Variant: the except branch resets the list.
load_expenses_reset(exps, f, fault) ==
  IF f.kind = "absent"
  THEN [expenses |-> exps, dialog |-> ""]
  ELSE IF fault \/ f.kind = "garbage"
       THEN [expenses |-> <<>>, dialog |-> "Failed to load expenses"]
       ELSE [expenses |-> json_load(f.body), dialog |-> ""]

\* Variant: no os.path.exists test, so a missing file is a read error.
load_expenses_noexists(exps, f, fault) ==
  IF fault \/ f.kind # "text"
  THEN [expenses |-> exps, dialog |-> "Failed to load expenses"]
  ELSE [expenses |-> json_load(f.body), dialog |-> ""]

\* load_expenses: the list and the dialog it ends with.  fault: reading
\* the existing file raises (I/O error).
load_expenses(exps, f, fault) ==
  IF f.kind = "absent"
  THEN [expenses |-> exps, dialog |-> ""]
  ELSE IF fault \/ f.kind = "garbage"
       THEN [expenses |-> exps, dialog |-> "Failed to load expenses"]
       ELSE [expenses |-> json_load(f.body), dialog |-> ""]

\* An injected read fault needs a file to read and counts against MaxFaults.
ReadFault(fault) ==
  /\ fault => (file.kind # "absent" /\ faults < MaxFaults)
  /\ faults' = IF fault THEN faults + 1 ELSE faults

\* An injected write fault counts against MaxFaults.
WriteFault(wr) ==
  /\ wr # "ok" => faults < MaxFaults
  /\ faults' = IF wr # "ok" THEN faults + 1 ELSE faults

\* ExpenseManager.__init__: empty list, then load_expenses.
Construct(fault) ==
  /\ ~running
  /\ ReadFault(fault)
  /\ LET r == load_expenses(<<>>, file, fault)
     IN /\ expenses' = r.expenses
        /\ dialog' = r.dialog
        /\ clean' = (r.expenses = <<>>)
  /\ running' = TRUE
  /\ op' = "init"
  /\ argAmount' = ""
  /\ args' = <<>>
  /\ ret' = "None"
  /\ total' = Fin(0)
  /\ byCat' = NoTotals
  /\ listed' = <<>>
  /\ inserted' = <<>>
  /\ UNCHANGED <<file, lastSaved, app, tree>>

\* The process ends; memory is lost, the file stays.
Exit ==
  /\ running
  /\ running' = FALSE
  /\ expenses' = <<>>
  /\ op' = "exit"
  /\ argAmount' = ""
  /\ args' = <<>>
  /\ ret' = "None"
  /\ total' = Fin(0)
  /\ byCat' = NoTotals
  /\ dialog' = ""
  /\ listed' = <<>>
  /\ inserted' = <<>>
  /\ clean' = FALSE
  /\ app' = FALSE
  /\ tree' = <<>>
  /\ UNCHANGED <<file, lastSaved, faults>>

\* ---------------------------------------------------------------- save
\* How the write in save_expenses can end: completed; open() raised and the
\* file was not touched; or an error after open() truncated the file, which
\* leaves it empty or cut short (not parseable).
WriteOutcomes == {"ok", "open_failed", "write_failed"}

\* Variant: the write error is swallowed inside save_expenses.
save_expenses_swallow(exps, f, wr) ==
  CASE wr = "ok"          -> [file |-> Text(json_dump(exps)), raised |-> FALSE]
    [] wr = "open_failed" -> [file |-> f, raised |-> FALSE]
    [] OTHER              -> [file |-> Garbage, raised |-> FALSE]

\* Variant: only the newest record is written.
save_expenses_newest(exps, f, wr) ==
  CASE wr = "ok"          -> [file |-> Text(json_dump(
                                IF exps = <<>> THEN <<>>
                                ELSE <<exps[Len(exps)]>>)),
                              raised |-> FALSE]
    [] wr = "open_failed" -> [file |-> f, raised |-> TRUE]
    [] OTHER              -> [file |-> Garbage, raised |-> TRUE]

\* save_expenses: the file afterwards and whether an OSError was raised.
save_expenses(exps, f, wr) ==
  CASE wr = "ok"          -> [file |-> Text(json_dump(exps)), raised |-> FALSE]
    [] wr = "open_failed" -> [file |-> f, raised |-> TRUE]
    [] OTHER              -> [file |-> Garbage, raised |-> TRUE]

\* The completely written sequence the file holds after a save.
SavedAfter(exps, wr) ==
  CASE wr = "ok"          -> [ok |-> TRUE, seq |-> exps]
    [] wr = "open_failed" -> lastSaved
    [] OTHER              -> NotSaved

\* ---------------------------------------------------------------- add
\* The dict built by add_expense.
NewExpense(amount, category, description, date) ==
  [amount |-> amount, category |-> category,
   description |-> description, date |-> date]

\* Variant: the record is inserted at the front.
AppendExpense_front(exps, e) == <<e>> \o exps

\* The list after self.expenses.append(expense).
AppendExpense(exps, e) == Append(exps, e)

\* ExpenseManager.add_expense(amount, category, description, date): its
\* effect on the store, the file and the error box; wr is the outcome of the
\* write inside save_expenses.
add_expense(amount, category, description, date, wr) ==
  /\ running
  /\ op' = "add"
  /\ argAmount' = amount
  /\ args' = <<amount, category, description, date>>
  /\ total' = Fin(0)
  /\ byCat' = NoTotals
  /\ UNCHANGED <<running, listed>>
  /\ LET p == float(amount)
     IN IF ~p.ok
        THEN \* float() raised ValueError
             /\ dialog' = "could not convert string to float"
             /\ ret' = "False"
             /\ UNCHANGED <<expenses, file, inserted, clean, lastSaved, faults>>
        ELSE IF LessEqZero(p.val)
        THEN \* raise ValueError("Amount must be positive")
             /\ dialog' = "Amount must be positive"
             /\ ret' = "False"
             /\ UNCHANGED <<expenses, file, inserted, clean, lastSaved, faults>>
        ELSE /\ Len(expenses) < MaxExpenses
             /\ WriteFault(wr)
             /\ expenses' = AppendExpense(expenses,
                              NewExpense(p.val, category, description, date))
             /\ LET s == save_expenses(expenses', file, wr)
                IN /\ file' = s.file
                   /\ ret' = IF s.raised THEN "OSError" ELSE "True"
                   /\ clean' = (clean /\ ~s.raised)
                   /\ inserted' = IF clean /\ ~s.raised
                                  THEN Append(inserted, p.val) ELSE <<>>
             /\ lastSaved' = SavedAfter(expenses', wr)
             /\ dialog' = ""

\* ---------------------------------------------------------------- queries
\* get_expenses returns self.expenses.
get_expenses(exps) == exps

GetExpenses ==
  /\ running /\ ~app
  /\ op' = "list"
  /\ listed' = get_expenses(expenses)
  /\ ret' = "value"
  /\ argAmount' = ""
  /\ args' = <<>>
  /\ total' = Fin(0)
  /\ byCat' = NoTotals
  /\ dialog' = ""
  /\ UNCHANGED <<expenses, file, running, inserted, clean, lastSaved, faults,
                  app, tree>>

\* sum(expense["amount"] for expense in self.expenses): a left fold from 0.
RECURSIVE SumFrom(_, _, _)
SumFrom(exps, i, acc) ==
  IF i > Len(exps) THEN acc
  ELSE SumFrom(exps, i + 1, FloatAdd(acc, exps[i].amount))

\* Variant: the fold starts at the second record.
get_total_expenses_skip(exps) == SumFrom(exps, 2, Fin(0))

get_total_expenses(exps) == SumFrom(exps, 1, Fin(0))

GetTotalExpenses ==
  /\ running /\ ~app
  /\ op' = "total"
  /\ total' = get_total_expenses(expenses)
  /\ ret' = "value"
  /\ argAmount' = ""
  /\ args' = <<>>
  /\ byCat' = NoTotals
  /\ dialog' = ""
  /\ UNCHANGED <<expenses, file, running, listed, inserted, clean, lastSaved,
                  faults, app, tree>>

\* The loop of get_expenses_by_category: category_totals[...] += amount
\* raises KeyError at the first record whose category is not a key.
RECURSIVE CategoryLoop(_, _, _)
CategoryLoop(exps, i, totals) ==
  IF i > Len(exps) THEN [raised |-> FALSE, totals |-> totals]
  ELSE IF exps[i].category \notin DOMAIN totals
       THEN [raised |-> TRUE, totals |-> NoTotals]
       ELSE CategoryLoop(exps, i + 1,
              [totals EXCEPT ![exps[i].category] = FloatAdd(@, exps[i].amount)])

\* Variant: the bucket is assigned (=) instead of accumulated (+=).
RECURSIVE CategoryLoop_assign(_, _, _)
CategoryLoop_assign(exps, i, totals) ==
  IF i > Len(exps) THEN [raised |-> FALSE, totals |-> totals]
  ELSE IF exps[i].category \notin DOMAIN totals
       THEN [raised |-> TRUE, totals |-> NoTotals]
       ELSE CategoryLoop_assign(exps, i + 1,
              [totals EXCEPT ![exps[i].category] = exps[i].amount])

get_expenses_by_category_assign(exps) ==
  CategoryLoop_assign(exps, 1, [c \in CategorySet |-> Fin(0)])

\* Variant: a record whose category is not a key is skipped.
RECURSIVE CategoryLoop_skip(_, _, _)
CategoryLoop_skip(exps, i, totals) ==
  IF i > Len(exps) THEN [raised |-> FALSE, totals |-> totals]
  ELSE IF exps[i].category \notin DOMAIN totals
       THEN CategoryLoop_skip(exps, i + 1, totals)
       ELSE CategoryLoop_skip(exps, i + 1,
              [totals EXCEPT ![exps[i].category] = FloatAdd(@, exps[i].amount)])

get_expenses_by_category_skip(exps) ==
  CategoryLoop_skip(exps, 1, [c \in CategorySet |-> Fin(0)])

get_expenses_by_category(exps) ==
  CategoryLoop(exps, 1, [c \in CategorySet |-> Fin(0)])

GetExpensesByCategory ==
  /\ running /\ ~app
  /\ op' = "bycat"
  /\ LET r == get_expenses_by_category(expenses)
     IN /\ byCat' = r.totals
        /\ ret' = IF r.raised THEN "KeyError" ELSE "value"
  /\ argAmount' = ""
  /\ args' = <<>>
  /\ total' = Fin(0)
  /\ dialog' = ""
  /\ UNCHANGED <<expenses, file, running, listed, inserted, clean, lastSaved,
                  faults, app, tree>>

\* A direct call of save_expenses.
SaveExpenses(wr) ==
  /\ running /\ ~app
  /\ WriteFault(wr)
  /\ op' = "save"
  /\ LET s == save_expenses(expenses, file, wr)
     IN /\ file' = s.file
        /\ ret' = IF s.raised THEN "OSError" ELSE "None"
  /\ lastSaved' = SavedAfter(expenses, wr)
  /\ argAmount' = ""
  /\ args' = <<>>
  /\ total' = Fin(0)
  /\ byCat' = NoTotals
  /\ dialog' = ""
  /\ UNCHANGED <<expenses, running, listed, inserted, clean, app, tree>>

\* A direct call of load_expenses on the running store.
LoadExpenses(fault) ==
  /\ running /\ ~app
  /\ ReadFault(fault)
  /\ op' = "load"
  /\ LET r == load_expenses(expenses, file, fault)
     IN /\ expenses' = r.expenses
        /\ dialog' = r.dialog
        /\ clean' = (r.expenses = <<>>)
  /\ ret' = "None"
  /\ argAmount' = ""
  /\ args' = <<>>
  /\ total' = Fin(0)
  /\ byCat' = NoTotals
  /\ listed' = <<>>
  /\ inserted' = <<>>
  /\ UNCHANGED <<file, running, lastSaved, app, tree>>

\* A direct call of add_expense on a store used without the window.
AddExpense(amount, category, description, date, wr) ==
  /\ ~app
  /\ add_expense(amount, category, description, date, wr)
  /\ UNCHANGED <<app, tree>>

\* ---------------------------------------------------------------- window
\* f"${expense['amount']:.2f}"
FormatAmount(v) ==
  CASE v.nan      -> "$nan"
    [] v.q = 1250 -> "$12.50"
    [] OTHER      -> "$0.00"

\* The values tuple of one row.
Row(e) == <<e.date, e.category, e.description, FormatAmount(e.amount)>>

\* Variant: the rows present are not deleted first.
refresh_expenses_keep(rows, exps) ==
  rows \o [i \in 1..Len(exps) |-> Row(exps[i])]

\* refresh_expenses: every row present is deleted, then one row is inserted
\* at the end for each expense of get_expenses().
refresh_expenses(rows, exps) ==
  LET cleared == SubSeq(rows, 1, 0)
  IN cleared \o [i \in 1..Len(get_expenses(exps)) |-> Row(get_expenses(exps)[i])]

\* ExpenseApp.__init__: the store is constructed and the tabs are built;
\* building the view tab refreshes the table and redraws the chart.  When
\* get_expenses_by_category raises there, the constructor raises and the
\* program ends before the window is shown.
AppStart(fault) ==
  /\ ~running
  /\ ReadFault(fault)
  /\ LET r == load_expenses(<<>>, file, fault)
         chart == get_expenses_by_category(r.expenses)
     IN /\ dialog' = r.dialog
        /\ IF chart.raised
           THEN /\ running' = FALSE
                /\ app' = FALSE
                /\ expenses' = <<>>
                /\ tree' = <<>>
                /\ op' = "crash"
                /\ ret' = "KeyError"
                /\ clean' = FALSE
           ELSE /\ running' = TRUE
                /\ app' = TRUE
                /\ expenses' = r.expenses
                /\ tree' = refresh_expenses(<<>>, r.expenses)
                /\ op' = "init"
                /\ ret' = "None"
                /\ clean' = (r.expenses = <<>>)
  /\ argAmount' = ""
  /\ args' = <<>>
  /\ total' = Fin(0)
  /\ byCat' = NoTotals
  /\ listed' = <<>>
  /\ inserted' = <<>>
  /\ UNCHANGED <<file, lastSaved>>

\* Variant: only the amount is required.
AnyEmpty_amount(amount, category, description, date) == amount = ""

\* not all([amount, category, description, date])
AnyEmpty(amount, category, description, date) ==
  amount = "" \/ category = "" \/ description = "" \/ date = ""

\* ExpenseApp.add_expense, the command of the "Add Expense" button, with
\* the texts of the four fields.  The table is refreshed only when the
\* store returned True; an exception of the store leaves the callback
\* before the refresh.
AppAddExpense(amount, category, description, date, wr) ==
  /\ app
  /\ IF AnyEmpty(amount, category, description, date)
     THEN /\ op' = "form"
          /\ dialog' = "All fields are required"
          /\ ret' = "None"
          /\ argAmount' = ""
          /\ args' = <<amount, category, description, date>>
          /\ total' = Fin(0)
          /\ byCat' = NoTotals
          /\ UNCHANGED <<expenses, file, running, listed, inserted, clean,
                          lastSaved, faults, tree>>
     ELSE /\ add_expense(amount, category, description, date, wr)
          /\ tree' = IF ret' = "True"
                     THEN refresh_expenses(tree, expenses')
                     ELSE tree
  /\ UNCHANGED app

\* ExpenseApp.refresh_expenses as the command of the "Refresh" button.
AppRefresh ==
  /\ app
  /\ tree' = refresh_expenses(tree, expenses)
  /\ op' = "refresh"
  /\ ret' = IF get_expenses_by_category(expenses).raised
            THEN "KeyError" ELSE "None"
  /\ dialog' = ""
  /\ argAmount' = ""
  /\ args' = <<>>
  /\ total' = Fin(0)
  /\ byCat' = NoTotals
  /\ UNCHANGED <<expenses, file, running, listed, inserted, clean, lastSaved,
                  faults, app>>

Next ==
  \/ \E fault \in BOOLEAN : Construct(fault)
  \/ Exit
  \/ \E x \in AddInputs, wr \in WriteOutcomes :
        AddExpense(x[1], x[2], x[3], x[4], wr)
  \/ GetExpenses
  \/ GetTotalExpenses
  \/ GetExpensesByCategory
  \/ \E wr \in WriteOutcomes : SaveExpenses(wr)
  \/ \E fault \in BOOLEAN : LoadExpenses(fault)
  \/ \E fault \in BOOLEAN : AppStart(fault)
  \/ \E x \in FormInputs, wr \in WriteOutcomes :
        AppAddExpense(x[1], x[2], x[3], x[4], wr)
  \/ AppRefresh

Spec == Init /\ [][Next]_vars
\* ================================================================ claims
IsPrefix(s, t) == Len(s) <= Len(t) /\ SubSeq(t, 1, Len(s)) = s

\* The arithmetic sum of a sequence of amounts.
RECURSIVE SumQ(_)
SumQ(s) == IF s = <<>> THEN 0 ELSE s[1].q + SumQ(Tail(s))

ArithSum(s) ==
  IF \E i \in 1..Len(s) : s[i].nan THEN NaN ELSE Fin(SumQ(s))

\* The amounts of the records of exps whose category is c.
AmountsOf(exps, c) ==
  LET sel == SelectSeq(exps, LAMBDA e : e.category = c)
  IN [i \in 1..Len(sel) |-> sel[i].amount]

AllInSet(exps) == \A i \in 1..Len(exps) : exps[i].category \in CategorySet

\* The amount text s is not a positive number: float() rejects it, or the
\* value is NaN, or the value is <= 0.
NotPositiveNumber(s) ==
  \/ ~float(s).ok
  \/ float(s).val.nan
  \/ float(s).val.q <= 0

\* C1: an add_expense whose amount does not parse to a number, or parses to
\* a value <= 0, returns False and leaves the in-memory list and the file
\* as they were.
C1_RejectedAddChangesNothing ==
  [][(op' = "add" /\ NotPositiveNumber(argAmount'))
       => (ret' = "False" /\ expenses' = expenses /\ file' = file)]_vars

\* C2: starting from an empty store, after successful add_expense calls
\* get_total_expenses() is the arithmetic sum of the inserted amounts, and
\* zero when nothing was inserted.
C2_TotalIsSum ==
  (op = "total" /\ clean) => total = ArithSum(inserted)

C2_Witness ==
  /\ op = "total"
  /\ clean
  /\ Len(inserted) = 2
  /\ total = Fin(2500)

C5_RoundTrip ==
  (op = "init" /\ lastSaved.ok /\ dialog = "") => expenses = lastSaved.seq

C5_Witness ==
  /\ op = "init"
  /\ lastSaved.ok
  /\ dialog = ""
  /\ Len(expenses) = 2
  /\ expenses[1].amount = Fin(1250)

\* Reading the existing file fails in this step: its content is not
\* parseable, or an I/O fault is injected.
ReadFails ==
  /\ op' \in {"init", "load"}
  /\ \/ file.kind = "garbage"
     \/ (file.kind = "text" /\ faults' = faults + 1)

\* C6: when the file exists and reading it fails, load_expenses shows the
\* failure in a dialog, does not raise, and leaves the list as it was.
C6_FailedLoadKeepsList ==
  [][ReadFails =>
       (dialog' = "Failed to load expenses" /\ ret' = "None"
        /\ expenses' = expenses)]_vars

C6_Witness ==
  /\ op = "load"
  /\ dialog = "Failed to load expenses"
  /\ Len(expenses) = 2

C8_AppendOnly ==
  [][op' \in {"add", "list", "total", "bycat", "save"}
       => (/\ IsPrefix(expenses, expenses')
           /\ IsPrefix(listed, listed')
           /\ IsPrefix(listed', expenses'))]_vars

C8_Witness ==
  /\ op = "list"
  /\ Len(listed) = 2
  /\ listed = expenses
  /\ listed[1] # listed[2]
  /\ ~listed[1].amount.nan

\* add_expense passes validation and the write of the file fails in this
\* step.
WriteFailsInAdd ==
  /\ op' = "add"
  /\ float(argAmount').ok
  /\ ~LessEqZero(float(argAmount').val)
  /\ faults' = faults + 1

\* C9: when add_expense passes validation and the write fails, the error
\* leaves add_expense (neither True nor False is returned) and the new
\* record stays appended to the list.
C9_WriteErrorPropagates ==
  [][WriteFailsInAdd =>
       (/\ ret' = "OSError"
        /\ Len(expenses') = Len(expenses) + 1
        /\ IsPrefix(expenses, expenses')
        /\ expenses'[Len(expenses')].amount = float(argAmount').val)]_vars

\* After such an add the list and the file differ.
C9_Witness ==
  /\ op = "add"
  /\ ret = "OSError"
  /\ Len(expenses) = 2
  /\ file.kind = "text"
  /\ json_load(file.body) # expenses

\* C10: whenever add_expense returns True the file holds exactly the
\* in-memory list, the new record included.
C10_DurableMirror ==
  (op = "add" /\ ret = "True") =>
    (file.kind = "text" /\ json_load(file.body) = expenses)

C10_Witness ==
  /\ op = "add"
  /\ ret = "True"
  /\ Len(expenses) = 2
  /\ json_load(file.body) = expenses

\* The table shows the store: one row per expense, in store order, each row
\* carrying the date, category, description and displayed amount.
InStep ==
  /\ Len(tree) = Len(expenses)
  /\ \A i \in 1..Len(expenses) :
       /\ tree[i][1] = expenses[i].date
       /\ tree[i][2] = expenses[i].category
       /\ tree[i][3] = expenses[i].description
       /\ tree[i][4] = FormatAmount(expenses[i].amount)

\* C11 as stated: every "Add Expense" action leaves the table in step with
\* the store, so whenever the window is idle the rows correspond one to
\* one, in order, to get_expenses().
C11_Original == app => InStep

\* C11 amended: an "Add Expense" action in which the store returns True
\* appends, writes the file and refreshes, after which the table is in step;
\* one that is rejected (by the form or by the store) changes neither table
\* nor store nor file; one in which the write of the file fails leaves the
\* new record in the store and the table as it was.  The table is in step
\* when the window comes up and after every refresh, and stays in step over
\* every step in which no write fails.
C11_TableFollowsStore ==
  [][app' =>
       /\ (op' = "add" /\ ret' = "True") =>
            /\ Len(expenses') = Len(expenses) + 1
            /\ IsPrefix(expenses, expenses')
            /\ file'.kind = "text" /\ json_load(file'.body) = expenses'
            /\ InStep'
       /\ ((op' = "add" /\ ret' = "False") \/ op' = "form") =>
            (tree' = tree /\ expenses' = expenses /\ file' = file)
       /\ (op' = "add" /\ ret' = "OSError") =>
            (tree' = tree /\ Len(expenses') = Len(expenses) + 1)
       /\ (~app \/ op' = "refresh") => InStep'
       /\ (app /\ InStep /\ ret' # "OSError") => InStep'
    ]_vars

C11_Witness ==
  /\ app
  /\ op = "add"
  /\ ret = "True"
  /\ Len(tree) = 2
  /\ InStep

\* C12: an "Add Expense" action of the form in which one of the four fields
\* is empty does not call the store's add_expense and leaves the list, the
\* file and the table unchanged; a direct add_expense call with a positive
\* amount and an empty category, description or date, whose write completes,
\* returns True and appends the record with the texts as given.
C12_EmptyFields ==
  [][/\ (app' /\ args' # <<>> /\ \E i \in 1..4 : args'[i] = "")
          => (/\ op' = "form"
              /\ argAmount' = ""
              /\ expenses' = expenses
              /\ file' = file
              /\ tree' = tree)
     /\ (/\ ~app'
         /\ op' = "add"
         /\ args'[1] = "12.50"
         /\ \E i \in 2..4 : args'[i] = ""
         /\ faults' = faults)
          => (/\ ret' = "True"
              /\ expenses' = Append(expenses,
                               [amount |-> Fin(1250), category |-> args'[2],
                                description |-> args'[3], date |-> args'[4]]))
    ]_vars

\* The form has just rejected an action while the store holds a record that
\* a direct call added with an empty description.
C12_Witness ==
  /\ app
  /\ op = "form"
  /\ dialog = "All fields are required"
  /\ \E i \in 1..Len(expenses) : expenses[i].description = ""
  /\ InStep
====
